---- MODULE Spec2Model ----
(***************************************************************************)
(* Model of the food-image-recognition notebooks: the ensemble notebook's  *)
(* weight normalisation, per-model prediction loop (threshold + fallback), *)
(* filename consistency assertion, stacking, conflict and influence        *)
(* analysis, submission and checkpoint loading                             *)
(* (src/Ensemble_Notebook.ipynb), and the training loops, threshold sweep  *)
(* and test prediction loop of the individual notebook                     *)
(* (src/Individual_Notebook.ipynb).                                        *)
(*                                                                         *)
(* Numbers.  Probabilities and thresholds live on the grid k / PScale.     *)
(* Weights are binary floating-point numbers: a float x is held as the     *)
(* integer x * 2^FracBits, and every division, addition and conversion is  *)
(* rounded to nearest, ties to even, at DoubleBits (Python float) or       *)
(* SingleBits (torch.float32 tensor) significant bits.                     *)
(***************************************************************************)
EXTENDS Integers, Sequences, FiniteSets, TLC

\* ------------------------------------------------------------ bounds
MaxModels == 2      \* length of model_configs is at most this
MaxFiles == 2       \* number of file names that may appear in images_test
PScale == 2         \* a probability or threshold is k / PScale
MaxRawWeight == 2   \* raw weights range over -1 .. MaxRawWeight
FracBits == 8       \* a float x is held as the integer x * 2^FracBits
DoubleBits == 5     \* significant bits of a Python float (53, scaled down)
SingleBits == 3     \* significant bits of a float32 tensor entry (24, scaled down)
ValRows == 1        \* images in the validation set
MaxKeyLen == 3      \* a state-dict key has at most this many parts
MaxEntries == 2     \* a state dict has at most this many entries

\* ------------------------------------------------------------ program constants
num_classes == 2    \* timm.create_model(..., num_classes=498), scaled down
batch_size == 1     \* batch_size = 64, scaled down
reported_rows == 2  \* the literal 1000 of the printed fallback rates, scaled down
sweep_start == 20   \* np.arange(0.20, 0.51, 0.02), in hundredths
sweep_stop == 51
sweep_step == 2
step_size == 5      \* StepLR(optimizer, step_size=5, gamma=0.5)
initial_lr == 16    \* 'lr': 1e-3 of the head, in units of 1e-3 / 16
validation_epochs == 10  \* num_epochs = 10
full_epochs == 6    \* num_epochs = 6

VARIABLES
    pc,                   \* position in the notebook
    error,                \* the exception that ended the run, or "none"
    models_info,          \* list of dicts built by load_model_info
    total_weight,         \* sum of the raw weights
    weights,              \* torch.tensor of the normalised weights (float32)
    times_fallback,       \* fallback counter
    all_preds_per_model,  \* list of each model's concatenated predictions
    ensemble_filenames,   \* None, or the first model's filename list
    idx,                  \* loop variable of the ensemble prediction loop
    model_preds,          \* list of the current model's batch predictions
    model_filenames,      \* filenames the current model has predicted
    batch_no,             \* batches of the current loader already consumed
    probs,                \* probabilities of the batch being processed
    preds,                \* predictions of the batch being processed
    stacked_preds,        \* torch.stack(all_preds_per_model)
    conflict_votes,       \* number of contested cells
    total_votes,          \* number of cells
    weighted_votes,       \* Weighted Vote Matrix of the influence analysis
    ensemble_decision,    \* its decision
    agree_with_vote,      \* per-model agreement counts
    decisive_votes,       \* per-model decisive counts
    m,                    \* loop variable of the leave-one-out loop
    weighted_preds,       \* Weighted Vote Matrix recomputed for the submission
    ensemble_preds,       \* Final Decision Matrix written to the submission
    submission,           \* the saved submission, or None
    classification_threshold, \* individual notebook: the selected threshold
    test_files,           \* individual notebook: filenames of the test loader
    all_preds,            \* individual notebook: list of batch predictions, then vstack
    all_filenames,        \* individual notebook: filenames predicted so far
    submissions,          \* EDA notebook: the submission DataFrames read so far
    disagreement_matrix,  \* EDA notebook: pairwise image disagreement counts
    fallback_rate,        \* the fallback count and the number it is printed out of
    pending,              \* leave-one-out iterations handed out and not yet run
    epoch,                \* training: number of epochs of the current loop completed
    num_epochs,           \* training: length of the current loop
    last_epoch,           \* training: the scheduler's step counter
    lr,                   \* training: optimizer.param_groups[0]['lr']
    all_probs,            \* validation: probabilities of the epoch just validated
    all_labels,           \* validation: the labels they are scored against
    best_thresh,          \* validation: threshold returned by find_optimal_threshold
    best_f1,              \* validation: F1 returned with it
    f1_scores,            \* validation: F1 at every threshold of the sweep
    checkpoint,           \* checkpoint loading: the state dict stored in the file
    state_dict,           \* checkpoint loading: the variable state_dict
    loaded                \* checkpoint loading: the state dict given to the model

vars == <<pc, error, models_info, total_weight, weights, times_fallback,
          all_preds_per_model, ensemble_filenames, idx, model_preds,
          model_filenames, batch_no, probs, preds, stacked_preds,
          conflict_votes, total_votes, weighted_votes, ensemble_decision,
          agree_with_vote, decisive_votes, m, weighted_preds, ensemble_preds,
          submission, classification_threshold, test_files, all_preds,
          all_filenames, submissions, disagreement_matrix, fallback_rate, pending,
          epoch, num_epochs, last_epoch, lr, all_probs, all_labels, best_thresh,
          best_f1, f1_scores, checkpoint, state_dict, loaded>>

\* ------------------------------------------------------------ floating point
RECURSIVE Pow2(_)
Pow2(n) == IF n = 0 THEN 1 ELSE 2 * Pow2(n - 1)

RECURSIVE BitLen(_)
BitLen(f) == IF f = 0 THEN 0 ELSE 1 + BitLen(f \div 2)

\* n / d (n >= 0, d > 0) rounded to the nearest integer, ties to even
RoundNearestEven(n, d) ==
    LET q == n \div d
        r == n % d
    IN  IF 2 * r < d THEN q
        ELSE IF 2 * r > d THEN q + 1
        ELSE IF q % 2 = 0 THEN q ELSE q + 1

\* n / d (n >= 0, d > 0) rounded to p significant bits
FRoundPos(p, n, d) ==
    LET L == BitLen(n \div d)
        s == IF L <= p THEN 1 ELSE Pow2(L - p)
    IN  s * RoundNearestEven(n, d * s)

\* n / d (d # 0) rounded to p significant bits
FRound(p, n, d) ==
    LET nn == IF d < 0 THEN -n ELSE n
        dd == IF d < 0 THEN -d ELSE d
    IN  IF nn < 0 THEN -FRoundPos(p, -nn, dd) ELSE FRoundPos(p, nn, dd)

One == Pow2(FracBits)
Half == Pow2(FracBits - 1)

\* a Python number literal of the configuration as a float
PyFloat(k) == FRound(DoubleBits, k * One, 1)
\* Python float addition and division
PyAdd(x, y) == FRound(DoubleBits, x + y, 1)
PyDiv(x, y) == FRound(DoubleBits, x * One, y)
\* conversion to, and addition in, torch.float32
ToFloat32(x) == FRound(SingleBits, x, 1)
F32Add(x, y) == FRound(SingleBits, x + y, 1)

\* ------------------------------------------------------------ sequences
RECURSIVE SeqSum(_)
SeqSum(s) == IF s = <<>> THEN 0 ELSE s[1] + SeqSum(Tail(s))

\* sum(...) of Python floats, left to right from the integer 0
RECURSIVE PySum(_)
PySum(s) ==
    IF s = <<>> THEN 0 ELSE PyAdd(PySum(SubSeq(s, 1, Len(s) - 1)), s[Len(s)])

RECURSIVE Cat(_)
Cat(ss) == IF ss = <<>> THEN <<>> ELSE ss[1] \o Cat(Tail(ss))

\* sorted(os.listdir(img_dir)) for a directory holding the files of set S
RECURSIVE SortedSeq(_)
SortedSeq(S) ==
    IF S = {} THEN <<>>
    ELSE LET lo == CHOOSE x \in S : \A y \in S : x <= y
         IN  <<lo>> \o SortedSeq(S \ {lo})

Files == 1 .. MaxFiles
Listings == {SortedSeq(S) : S \in SUBSET Files}
Thresholds == 0 .. PScale
RawWeights == -1 .. MaxRawWeight
ProbRows == [1 .. num_classes -> 0 .. PScale]


\* ------------------------------------------------------------ matrices
RowSum(row) == SeqSum(row)

\* mutant of Argmax: the last index of the maximum
ArgmaxLast(row) ==
    CHOOSE j \in 1 .. Len(row) :
        /\ \A k \in 1 .. Len(row) : row[k] <= row[j]
        /\ \A k \in (j + 1) .. Len(row) : row[k] < row[j]

\* torch.argmax / np.argmax of a row: the first index of the maximum
Argmax(row) ==
    CHOOSE j \in 1 .. Len(row) :
        /\ \A k \in 1 .. Len(row) : row[k] <= row[j]
        /\ \A k \in 1 .. (j - 1) : row[k] < row[j]

\* mutant of ThresholdRow: the comparison is not strict
ThresholdRowAtLeast(prow, t) == [j \in 1 .. Len(prow) |-> IF prow[j] >= t THEN 1 ELSE 0]

\* (probs > threshold) for one row and for a batch
ThresholdRow(prow, t) == [j \in 1 .. Len(prow) |-> IF prow[j] > t THEN 1 ELSE 0]
Threshold(p, t) == [i \in 1 .. Len(p) |-> ThresholdRow(p[i], t)]

\* mutant of FallbackRow: the all-zero row is counted but not repaired
FallbackRowSkipped(brow, prow) == brow

\* body of the fallback loop for row i
FallbackRow(brow, prow) ==
    IF RowSum(brow) = 0 THEN [brow EXCEPT ![Argmax(prow)] = 1] ELSE brow

\* mutant of FallbackCount: the counter is incremented for every row of the batch
FallbackCountAll(b) == Len(b)

\* the fallback loop over the rows of a batch, and how often its branch fires
Fallback(b, p) == [i \in 1 .. Len(b) |-> FallbackRow(b[i], p[i])]
FallbackCount(b) == Cardinality({i \in 1 .. Len(b) : RowSum(b[i]) = 0})

\* tensor.shape of a [rows x columns] matrix
Shape(mat) == <<Len(mat), IF mat = <<>> THEN 0 ELSE Len(mat[1])>>

\* the slice of filenames the loader yields as batch number k (from 0)
BatchFiles(files, k) ==
    SubSeq(files, k * batch_size + 1,
           IF (k + 1) * batch_size < Len(files) THEN (k + 1) * batch_size
           ELSE Len(files))

\* mutant of ModelOutputs: the classifier head has one class too many
ModelOutputsWide(rows) == [1 .. rows -> [1 .. (num_classes + 1) -> 0 .. PScale]]

\* model(X) followed by sigmoid: any [rows x num_classes] matrix of probabilities
ModelOutputs(rows) == [1 .. rows -> ProbRows]

\* mutant of VoteCell: every model votes with the weight 1 / num_models
RECURSIVE VoteCellUniform(_, _, _, _, _)
VoteCellUniform(stacked, w, i, j, k) ==
    IF k = 0 THEN 0
    ELSE F32Add(VoteCellUniform(stacked, w, i, j, k - 1),
                FRound(SingleBits, One, Len(stacked)) * stacked[k][i][j])

\* torch.einsum('mnc,m->nc', stacked, w): float32 sum over the models, in order
RECURSIVE VoteCell(_, _, _, _, _)
VoteCell(stacked, w, i, j, k) ==
    IF k = 0 THEN 0
    ELSE F32Add(VoteCell(stacked, w, i, j, k - 1), w[k] * stacked[k][i][j])

\* mutant of Einsum: the weighted votes are averaged over the models
EinsumMean(stacked, w) ==
    [i \in 1 .. Len(stacked[1]) |->
        [j \in 1 .. Len(stacked[1][1]) |->
            FRound(SingleBits, VoteCell(stacked, w, i, j, Len(stacked)), Len(stacked))]]

Einsum(stacked, w) ==
    [i \in 1 .. Len(stacked[1]) |->
        [j \in 1 .. Len(stacked[1][1]) |-> VoteCell(stacked, w, i, j, Len(stacked))]]

\* mutant of Decide: a vote of exactly 0.5 counts as present
DecideAtLeastHalf(votes) ==
    [i \in 1 .. Len(votes) |->
        [j \in 1 .. Len(votes[i]) |-> IF votes[i][j] >= Half THEN 1 ELSE 0]]

\* (votes > 0.5)
Decide(votes) ==
    [i \in 1 .. Len(votes) |->
        [j \in 1 .. Len(votes[i]) |-> IF votes[i][j] > Half THEN 1 ELSE 0]]

\* mutant of Without: the slices are shifted by one, so element k + 1 is removed
WithoutShifted(s, k) == SubSeq(s, 1, k) \o SubSeq(s, k + 2, Len(s))

\* torch.cat([x[:m], x[m+1:]]): the sequence without its k-th element
Without(s, k) == SubSeq(s, 1, k - 1) \o SubSeq(s, k + 1, Len(s))

\* mutant of EqualCells: only the cells where both matrices hold a 1 are counted
EqualOnes(a, b) ==
    Cardinality({c \in (1 .. Len(a)) \X (1 .. Len(a[1])) :
                    a[c[1]][c[2]] = 1 /\ b[c[1]][c[2]] = 1})

\* number of cells where two matrices agree
EqualCells(a, b) ==
    Cardinality({c \in (1 .. Len(a)) \X (1 .. Len(a[1])) : a[c[1]][c[2]] = b[c[1]][c[2]]})

\* ------------------------------------------------------------ initial state
InitialValues ==
    /\ error = "none"
    /\ models_info = <<>>
    /\ total_weight = 0
    /\ weights = <<>>
    /\ times_fallback = 0
    /\ all_preds_per_model = <<>>
    /\ ensemble_filenames = <<>>
    /\ idx = 0
    /\ model_preds = <<>>
    /\ model_filenames = <<>>
    /\ batch_no = 0
    /\ probs = <<>>
    /\ preds = <<>>
    /\ stacked_preds = <<>>
    /\ conflict_votes = 0
    /\ total_votes = 0
    /\ weighted_votes = <<>>
    /\ ensemble_decision = <<>>
    /\ agree_with_vote = <<>>
    /\ decisive_votes = <<>>
    /\ m = 0
    /\ weighted_preds = <<>>
    /\ ensemble_preds = <<>>
    /\ submission = <<>>
    /\ classification_threshold = 0
    /\ test_files = <<>>
    /\ all_preds = <<>>
    /\ all_filenames = <<>>
    /\ submissions = <<>>
    /\ disagreement_matrix = <<>>
    /\ fallback_rate = <<>>
    /\ pending = {}
    /\ epoch = 0
    /\ num_epochs = 0
    /\ last_epoch = 0
    /\ lr = 0
    /\ all_probs = <<>>
    /\ all_labels = <<>>
    /\ best_thresh = 0
    /\ best_f1 = 0
    /\ f1_scores = <<>>
    /\ checkpoint = <<>>
    /\ state_dict = <<>>
    /\ loaded = <<>>

\* a notebook is run from its first cell
Init ==
    /\ pc \in {"load", "ind_setup", "eda_read"}
    /\ InitialValues

configVars == <<models_info, total_weight, weights>>
loopVars == <<times_fallback, all_preds_per_model, ensemble_filenames, idx,
              model_preds, model_filenames, batch_no, probs, preds>>
analysisVars == <<conflict_votes, total_votes, weighted_votes, ensemble_decision,
                  agree_with_vote, decisive_votes, m>>
submitVars == <<weighted_preds, ensemble_preds, submission>>
indVars == <<classification_threshold, test_files, all_preds, all_filenames>>
edaVars == <<submissions, disagreement_matrix>>
rateVars == <<fallback_rate>>
trainVars == <<epoch, num_epochs, last_epoch, lr>>
sweepVars == <<all_probs, all_labels, best_thresh, best_f1, f1_scores>>
ckptVars == <<checkpoint, state_dict, loaded>>
otherVars == <<pending, trainVars, sweepVars, ckptVars>>

\* an exception ends the run
Raise(e) == pc' = "error" /\ error' = e

\* ------------------------------------------------------------ ensemble notebook
\* load_model_info(*cfg) for one more entry of model_configs
load_model_info(threshold, raw_weight, listing) ==
    /\ pc = "load"
    /\ models_info' = Append(models_info,
                             [threshold |-> threshold,
                              raw_weight |-> PyFloat(raw_weight),
                              loader_test |-> listing])
    /\ UNCHANGED <<pc, error, total_weight, weights, loopVars, stacked_preds,
                   analysisVars, submitVars, indVars, edaVars, rateVars, otherVars>>

\* mutant of NormalizedInfo: the raw weight is stored without the division
NormalizedInfoUnscaled(info, total) ==
    [k \in 1 .. Len(info) |->
        [threshold |-> info[k].threshold,
         raw_weight |-> info[k].raw_weight,
         loader_test |-> info[k].loader_test,
         weight |-> info[k].raw_weight]]

\* m["raw_weight"] / total_weight for every model
NormalizedInfo(info, total) ==
    [k \in 1 .. Len(info) |->
        [threshold |-> info[k].threshold,
         raw_weight |-> info[k].raw_weight,
         loader_test |-> info[k].loader_test,
         weight |-> PyDiv(info[k].raw_weight, total)]]

\* total_weight = sum(...); for m in models_info: m["weight"] = ...
NormalizeWeights ==
    /\ pc = "load"
    /\ total_weight' = PySum([k \in 1 .. Len(models_info) |-> models_info[k].raw_weight])
    /\ IF Len(models_info) > 0 /\ total_weight' = 0
       THEN /\ Raise("ZeroDivisionError")
            /\ UNCHANGED models_info
       ELSE /\ models_info' = NormalizedInfo(models_info, total_weight')
            /\ pc' = "predict_init"
            /\ UNCHANGED error
    /\ UNCHANGED <<weights, loopVars, stacked_preds, analysisVars, submitVars, indVars, edaVars,
                   rateVars, otherVars>>

\* mutant of StartPrediction: the fallback counter is not set back to 0
StartPredictionKeepCounter ==
    /\ pc = "predict_init"
    /\ weights' = [k \in 1 .. Len(models_info) |-> ToFloat32(models_info[k].weight)]
    /\ all_preds_per_model' = <<>>
    /\ ensemble_filenames' = <<>>
    /\ idx' = IF Len(models_info) = 0 THEN 0 ELSE 1
    /\ pc' = IF Len(models_info) = 0 THEN "stack" ELSE "predict"
    /\ model_preds' = <<>>
    /\ model_filenames' = <<>>
    /\ batch_no' = 0
    /\ UNCHANGED <<error, models_info, total_weight, times_fallback, probs, preds, stacked_preds,
                   analysisVars, submitVars, indVars, edaVars, rateVars, otherVars>>

\* mutant of StartPrediction: the weights tensor lists the models in reverse order
StartPredictionReversedWeights ==
    /\ pc = "predict_init"
    /\ weights' = [k \in 1 .. Len(models_info) |->
                      ToFloat32(models_info[Len(models_info) + 1 - k].weight)]
    /\ times_fallback' = 0
    /\ all_preds_per_model' = <<>>
    /\ ensemble_filenames' = <<>>
    /\ idx' = IF Len(models_info) = 0 THEN 0 ELSE 1
    /\ pc' = IF Len(models_info) = 0 THEN "stack" ELSE "predict"
    /\ model_preds' = <<>>
    /\ model_filenames' = <<>>
    /\ batch_no' = 0
    /\ UNCHANGED <<error, models_info, total_weight, probs, preds, stacked_preds,
                   analysisVars, submitVars, indVars, edaVars, rateVars, otherVars>>

\* num_models, weights tensor, counters and accumulators of the prediction cell
StartPrediction ==
    /\ pc = "predict_init"
    /\ weights' = [k \in 1 .. Len(models_info) |-> ToFloat32(models_info[k].weight)]
    /\ times_fallback' = 0
    /\ all_preds_per_model' = <<>>
    /\ ensemble_filenames' = <<>>
    /\ idx' = IF Len(models_info) = 0 THEN 0 ELSE 1
    /\ pc' = IF Len(models_info) = 0 THEN "stack" ELSE "predict"
    /\ model_preds' = <<>>
    /\ model_filenames' = <<>>
    /\ batch_no' = 0
    /\ UNCHANGED <<error, models_info, total_weight, probs, preds, stacked_preds,
                   analysisVars, submitVars, indVars, edaVars, rateVars, otherVars>>

\* logits, probs, preds = (probs > threshold).float() for the next batch
ThresholdBatch ==
    /\ pc = "predict"
    /\ batch_no * batch_size < Len(models_info[idx].loader_test)
    /\ \E p \in ModelOutputs(Len(BatchFiles(models_info[idx].loader_test, batch_no))) :
          /\ probs' = p
          /\ preds' = Threshold(p, models_info[idx].threshold)
    /\ pc' = "fallback"
    /\ UNCHANGED <<error, configVars, times_fallback, all_preds_per_model,
                   ensemble_filenames, idx, model_preds, model_filenames, batch_no,
                   stacked_preds, analysisVars, submitVars, indVars, edaVars,
                   rateVars, otherVars>>

\* the fallback loop, model_preds.append, model_filenames.extend
FallbackBatch ==
    /\ pc = "fallback"
    /\ preds' = Fallback(preds, probs)
    /\ times_fallback' = times_fallback + FallbackCount(preds)
    /\ model_preds' = Append(model_preds, preds')
    /\ model_filenames' = model_filenames \o BatchFiles(models_info[idx].loader_test, batch_no)
    /\ batch_no' = batch_no + 1
    /\ pc' = "predict"
    /\ UNCHANGED <<error, configVars, all_preds_per_model, ensemble_filenames, idx,
                   probs, stacked_preds, analysisVars, submitVars, indVars, edaVars,
                   rateVars, otherVars>>

\* mutant of FilenamesMatch: only the number of filenames is compared
FilenamesMatchLength(a, b) == Len(a) = Len(b)

\* assert ensemble_filenames == model_filenames
FilenamesMatch(a, b) == a = b

\* mutant of FinishModel: the fallback counter is reset after every model
FinishModelResetCounter ==
    /\ pc = "predict"
    /\ batch_no * batch_size >= Len(models_info[idx].loader_test)
    /\ IF model_preds = <<>>
       THEN /\ Raise("RuntimeError")
            /\ UNCHANGED <<all_preds_per_model, ensemble_filenames, idx, model_preds,
                           model_filenames, batch_no, probs, preds>>
       ELSE /\ all_preds_per_model' = Append(all_preds_per_model, Cat(model_preds))
            /\ IF ensemble_filenames # <<>>
                  /\ ~FilenamesMatch(ensemble_filenames[1], model_filenames)
               THEN /\ Raise("AssertionError")
                    /\ UNCHANGED <<ensemble_filenames, idx, model_preds,
                                   model_filenames, batch_no, probs, preds>>
               ELSE /\ ensemble_filenames' =
                          IF ensemble_filenames = <<>> THEN <<model_filenames>>
                          ELSE ensemble_filenames
                    /\ idx' = IF idx = Len(models_info) THEN idx ELSE idx + 1
                    /\ pc' = IF idx = Len(models_info) THEN "stack" ELSE "predict"
                    /\ model_preds' = <<>>
                    /\ model_filenames' = <<>>
                    /\ batch_no' = 0
                    /\ probs' = <<>>
                    /\ preds' = <<>>
                    /\ UNCHANGED error
    /\ times_fallback' = 0
    /\ UNCHANGED <<configVars, stacked_preds, analysisVars,
                   submitVars, indVars, edaVars, rateVars, otherVars>>

\* torch.cat, append, the filename assertion, and the start of the next iteration
\* (probs and preds are dead after the batch loop and are cleared here)
FinishModel ==
    /\ pc = "predict"
    /\ batch_no * batch_size >= Len(models_info[idx].loader_test)
    /\ IF model_preds = <<>>
       THEN /\ Raise("RuntimeError")
            /\ UNCHANGED <<all_preds_per_model, ensemble_filenames, idx, model_preds,
                           model_filenames, batch_no, probs, preds>>
       ELSE /\ all_preds_per_model' = Append(all_preds_per_model, Cat(model_preds))
            /\ IF ensemble_filenames # <<>>
                  /\ ~FilenamesMatch(ensemble_filenames[1], model_filenames)
               THEN /\ Raise("AssertionError")
                    /\ UNCHANGED <<ensemble_filenames, idx, model_preds,
                                   model_filenames, batch_no, probs, preds>>
               ELSE /\ ensemble_filenames' =
                          IF ensemble_filenames = <<>> THEN <<model_filenames>>
                          ELSE ensemble_filenames
                    /\ idx' = IF idx = Len(models_info) THEN idx ELSE idx + 1
                    /\ pc' = IF idx = Len(models_info) THEN "stack" ELSE "predict"
                    /\ model_preds' = <<>>
                    /\ model_filenames' = <<>>
                    /\ batch_no' = 0
                    /\ probs' = <<>>
                    /\ preds' = <<>>
                    /\ UNCHANGED error
    /\ UNCHANGED <<configVars, times_fallback, stacked_preds, analysisVars,
                   submitVars, indVars, edaVars, rateVars, otherVars>>

\* torch.stack raises on an empty list and on tensors of unequal shape
Stackable(ms) == ms # <<>> /\ \A k \in 1 .. Len(ms) : Shape(ms[k]) = Shape(ms[1])

\* the printed fallback rate: times_fallback out of 1000 rows per model
PrintedRate(count, num_models) == [count |-> count, rows |-> reported_rows * num_models]

\* stacked_preds = torch.stack(all_preds_per_model), then the printed fallback rate
Stack ==
    /\ pc = "stack"
    /\ IF Stackable(all_preds_per_model)
       THEN /\ stacked_preds' = all_preds_per_model
            /\ fallback_rate' = PrintedRate(times_fallback, Len(models_info))
            /\ pc' = "conflict"
            /\ UNCHANGED error
       ELSE /\ Raise("RuntimeError")
            /\ UNCHANGED <<stacked_preds, fallback_rate>>
    /\ UNCHANGED <<configVars, loopVars, analysisVars, submitVars, indVars, edaVars,
                   otherVars>>


\* vote_sum, conflicts, conflict_votes and total_votes of the conflict analysis
VoteSum(stacked, i, j) == SeqSum([k \in 1 .. Len(stacked) |-> stacked[k][i][j]])

\* mutant of Conflicts: a cell every model voted for is counted as contested too
ConflictsAnyVote(stacked) ==
    {c \in (1 .. Len(stacked[1])) \X (1 .. Len(stacked[1][1])) :
        VoteSum(stacked, c[1], c[2]) # 0}

Conflicts(stacked) ==
    {c \in (1 .. Len(stacked[1])) \X (1 .. Len(stacked[1][1])) :
        /\ VoteSum(stacked, c[1], c[2]) # 0
        /\ VoteSum(stacked, c[1], c[2]) # Len(stacked)}

ConflictAnalysis ==
    /\ pc = "conflict"
    /\ conflict_votes' = Cardinality(Conflicts(stacked_preds))
    /\ total_votes' = Len(stacked_preds[1]) * Len(stacked_preds[1][1])
    /\ pc' = "influence"
    /\ UNCHANGED <<error, configVars, loopVars, stacked_preds, weighted_votes,
                   ensemble_decision, agree_with_vote, decisive_votes, m,
                   submitVars, indVars, edaVars, rateVars, otherVars>>

\* weighted_votes, ensemble_decision and the zeroed influence counters
InfluenceBegin ==
    /\ pc = "influence"
    /\ weighted_votes' = Einsum(stacked_preds, weights)
    /\ ensemble_decision' = Decide(weighted_votes')
    /\ agree_with_vote' = [k \in 1 .. Len(stacked_preds) |-> 0]
    /\ decisive_votes' = [k \in 1 .. Len(stacked_preds) |-> 0]
    /\ m' = 1
    /\ pc' = "leave_one_out"
    /\ UNCHANGED <<error, configVars, loopVars, stacked_preds, conflict_votes,
                   total_votes, submitVars, indVars, edaVars, rateVars, otherVars>>

\* mutant of NewDecision: the remaining weights are rescaled to sum to 1
NewDecisionRenormalized(stacked, w, k) ==
    IF Len(stacked) = 1
    THEN [i \in 1 .. Len(stacked[1]) |-> [j \in 1 .. Len(stacked[1][1]) |-> 0]]
    ELSE LET rest == Without(w, k)
             total == SeqSum(rest)
             scaled == [n \in 1 .. Len(rest) |->
                           IF total = 0 THEN rest[n]
                           ELSE FRound(SingleBits, rest[n] * One, total)]
         IN  Decide(Einsum(Without(stacked, k), scaled))

\* mutant of NewDecision: no model is removed before the vote is recomputed
NewDecisionUnsliced(stacked, w, k) == Decide(Einsum(stacked, w))

\* new_decision of the leave-one-out loop for model k
NewDecision(stacked, w, k) ==
    IF Len(stacked) = 1
    THEN [i \in 1 .. Len(stacked[1]) |-> [j \in 1 .. Len(stacked[1][1]) |-> 0]]
    ELSE Decide(Einsum(Without(stacked, k), Without(w, k)))

\* mutant of InfluenceStep: model m is removed by zeroing its ballot in stacked_preds
InfluenceStepZeroing ==
    /\ pc = "leave_one_out"
    /\ agree_with_vote' =
          [agree_with_vote EXCEPT ![m] = EqualCells(stacked_preds[m], ensemble_decision)]
    /\ decisive_votes' =
          [decisive_votes EXCEPT ![m] =
              Len(ensemble_decision) * Len(ensemble_decision[1])
              - EqualCells(ensemble_decision, NewDecision(stacked_preds, weights, m))]
    /\ IF m = Len(stacked_preds)
       THEN /\ total_votes' = Len(stacked_preds[1]) * Len(stacked_preds[1][1])
            /\ pc' = "submit"
            /\ UNCHANGED m
       ELSE /\ m' = m + 1
            /\ UNCHANGED <<pc, total_votes>>
    /\ stacked_preds' =
          [stacked_preds EXCEPT ![m] =
              [i \in 1 .. Len(stacked_preds[m]) |-> [j \in 1 .. num_classes |-> 0]]]
    /\ UNCHANGED <<error, configVars, loopVars, conflict_votes,
                   weighted_votes, ensemble_decision, submitVars, indVars, edaVars,
                   rateVars, otherVars>>

\* mutant of InfluenceStep: model m is removed by zeroing its entry of weights
InfluenceStepZeroWeight ==
    /\ pc = "leave_one_out"
    /\ agree_with_vote' =
          [agree_with_vote EXCEPT ![m] = EqualCells(stacked_preds[m], ensemble_decision)]
    /\ decisive_votes' =
          [decisive_votes EXCEPT ![m] =
              Len(ensemble_decision) * Len(ensemble_decision[1])
              - EqualCells(ensemble_decision, NewDecision(stacked_preds, weights, m))]
    /\ IF m = Len(stacked_preds)
       THEN /\ total_votes' = Len(stacked_preds[1]) * Len(stacked_preds[1][1])
            /\ pc' = "submit"
            /\ UNCHANGED m
       ELSE /\ m' = m + 1
            /\ UNCHANGED <<pc, total_votes>>
    /\ weights' = [weights EXCEPT ![m] = 0]
    /\ UNCHANGED <<error, models_info, total_weight, loopVars, stacked_preds, conflict_votes,
                   weighted_votes, ensemble_decision, submitVars, indVars, edaVars,
                   rateVars, otherVars>>

\* one iteration of the leave-one-out loop; after the last one, total_votes
InfluenceStep ==
    /\ pc = "leave_one_out"
    /\ agree_with_vote' =
          [agree_with_vote EXCEPT ![m] = EqualCells(stacked_preds[m], ensemble_decision)]
    /\ decisive_votes' =
          [decisive_votes EXCEPT ![m] =
              Len(ensemble_decision) * Len(ensemble_decision[1])
              - EqualCells(ensemble_decision, NewDecision(stacked_preds, weights, m))]
    /\ IF m = Len(stacked_preds)
       THEN /\ total_votes' = Len(stacked_preds[1]) * Len(stacked_preds[1][1])
            /\ pc' = "submit"
            /\ UNCHANGED m
       ELSE /\ m' = m + 1
            /\ UNCHANGED <<pc, total_votes>>
    /\ UNCHANGED <<error, configVars, loopVars, stacked_preds, conflict_votes,
                   weighted_votes, ensemble_decision, submitVars, indVars, edaVars,
                   rateVars, otherVars>>

\* the iterations of the leave-one-out loop, each split into its two assignments,
\* handed out to be run in any order
LoopTasks(N) == (1 .. N) \X {"agree", "decisive"}

InfluenceFork ==
    /\ pc = "leave_one_out"
    /\ m = 1
    /\ pending = {}
    /\ pending' = LoopTasks(Len(stacked_preds))
    /\ pc' = "any_order"
    /\ UNCHANGED <<error, configVars, loopVars, stacked_preds, analysisVars, submitVars,
                   indVars, edaVars, rateVars, trainVars, sweepVars, ckptVars>>

\* mutant of InfluenceTask: the counts are kept as running totals over the models
InfluenceTaskRunning(k, part) ==
    /\ pc = "any_order"
    /\ <<k, part>> \in pending
    /\ pending' = pending \ {<<k, part>>}
    /\ IF part = "agree"
       THEN /\ agree_with_vote' =
                  [agree_with_vote EXCEPT ![k] =
                      (IF k = 1 THEN 0 ELSE agree_with_vote[k - 1])
                      + EqualCells(stacked_preds[k], ensemble_decision)]
            /\ UNCHANGED decisive_votes
       ELSE /\ decisive_votes' =
                  [decisive_votes EXCEPT ![k] =
                      (IF k = 1 THEN 0 ELSE decisive_votes[k - 1])
                      + Len(ensemble_decision) * Len(ensemble_decision[1])
                      - EqualCells(ensemble_decision, NewDecision(stacked_preds, weights, k))]
            /\ UNCHANGED agree_with_vote
    /\ UNCHANGED <<pc, error, configVars, loopVars, stacked_preds, conflict_votes, total_votes,
                   weighted_votes, ensemble_decision, m, submitVars, indVars, edaVars,
                   rateVars, trainVars, sweepVars, ckptVars>>

\* one assignment of the loop body for model k: agree_with_vote[k] or, with its own
\* other_weights, other_models and new_decision, decisive_votes[k]
InfluenceTask(k, part) ==
    /\ pc = "any_order"
    /\ <<k, part>> \in pending
    /\ pending' = pending \ {<<k, part>>}
    /\ IF part = "agree"
       THEN /\ agree_with_vote' =
                  [agree_with_vote EXCEPT ![k] =
                      EqualCells(stacked_preds[k], ensemble_decision)]
            /\ UNCHANGED decisive_votes
       ELSE /\ decisive_votes' =
                  [decisive_votes EXCEPT ![k] =
                      Len(ensemble_decision) * Len(ensemble_decision[1])
                      - EqualCells(ensemble_decision, NewDecision(stacked_preds, weights, k))]
            /\ UNCHANGED agree_with_vote
    /\ UNCHANGED <<pc, error, configVars, loopVars, stacked_preds, conflict_votes, total_votes,
                   weighted_votes, ensemble_decision, m, submitVars, indVars, edaVars,
                   rateVars, trainVars, sweepVars, ckptVars>>

\* every iteration has run: total_votes and the end of the influence cell
InfluenceJoin ==
    /\ pc = "any_order"
    /\ pending = {}
    /\ total_votes' = Len(stacked_preds[1]) * Len(stacked_preds[1][1])
    /\ pc' = "submit"
    /\ UNCHANGED <<error, configVars, loopVars, stacked_preds, conflict_votes,
                   weighted_votes, ensemble_decision, agree_with_vote, decisive_votes, m,
                   submitVars, indVars, edaVars, rateVars, otherVars>>

\* the conflict and influence cells are optional: the submission cell recomputes the vote
SkipAnalysis ==
    /\ pc \in {"conflict", "influence"}
    /\ pc' = "submit"
    /\ UNCHANGED <<error, configVars, loopVars, stacked_preds, analysisVars,
                   submitVars, indVars, edaVars, rateVars, otherVars>>

\* weighted_preds, ensemble_preds, submission_df.to_csv
Submission ==
    /\ pc = "submit"
    /\ weighted_preds' = Einsum(stacked_preds, weights)
    /\ ensemble_preds' = Decide(weighted_preds')
    /\ submission' = <<[Filename |-> ensemble_filenames[1], labels |-> ensemble_preds']>>
    /\ pc' = "done"
    /\ UNCHANGED <<error, configVars, loopVars, stacked_preds, analysisVars, indVars, edaVars,
                   rateVars, otherVars>>

\* the prediction cell and the cells after it are executed again in the same kernel
Rerun ==
    /\ pc = "done"
    /\ pc' = "predict_init"
    /\ UNCHANGED <<error, configVars, loopVars, stacked_preds, analysisVars,
                   submitVars, indVars, edaVars, rateVars, otherVars>>

\* ------------------------------------------------------------ individual notebook
\* classification_threshold, the test loader, and the start of the test prediction cell
IndSetup(threshold, listing) ==
    /\ pc = "ind_setup"
    /\ classification_threshold' = threshold
    /\ test_files' = listing
    /\ all_preds' = <<>>
    /\ all_filenames' = <<>>
    /\ times_fallback' = 0
    /\ batch_no' = 0
    /\ pc' = "ind_predict"
    /\ UNCHANGED <<error, configVars, all_preds_per_model, ensemble_filenames, idx,
                   model_preds, model_filenames, probs, preds, stacked_preds,
                   analysisVars, submitVars, edaVars, rateVars, otherVars>>

\* probs, preds = (probs > classification_threshold).astype(int) for the next batch
IndThresholdBatch ==
    /\ pc = "ind_predict"
    /\ batch_no * batch_size < Len(test_files)
    /\ \E p \in ModelOutputs(Len(BatchFiles(test_files, batch_no))) :
          /\ probs' = p
          /\ preds' = Threshold(p, classification_threshold)
    /\ pc' = "ind_fallback"
    /\ UNCHANGED <<error, configVars, times_fallback, all_preds_per_model,
                   ensemble_filenames, idx, model_preds, model_filenames, batch_no,
                   stacked_preds, analysisVars, submitVars, indVars, edaVars,
                   rateVars, otherVars>>

\* the fallback loop, all_preds.append, all_filenames.extend
IndFallbackBatch ==
    /\ pc = "ind_fallback"
    /\ preds' = Fallback(preds, probs)
    /\ times_fallback' = times_fallback + FallbackCount(preds)
    /\ all_preds' = Append(all_preds, preds')
    /\ all_filenames' = all_filenames \o BatchFiles(test_files, batch_no)
    /\ batch_no' = batch_no + 1
    /\ pc' = "ind_predict"
    /\ UNCHANGED <<error, configVars, all_preds_per_model, ensemble_filenames, idx,
                   model_preds, model_filenames, probs, stacked_preds, analysisVars,
                   submitVars, classification_threshold, test_files, edaVars,
                   rateVars, otherVars>>

\* np.vstack(all_preds), the printed fallback rate and the saved submission
IndSubmission ==
    /\ pc = "ind_predict"
    /\ batch_no * batch_size >= Len(test_files)
    /\ IF all_preds = <<>>
       THEN /\ Raise("ValueError")
            /\ UNCHANGED <<all_preds, submission, fallback_rate>>
       ELSE /\ all_preds' = Cat(all_preds)
            /\ fallback_rate' = PrintedRate(times_fallback, 1)
            /\ submission' = <<[Filename |-> all_filenames, labels |-> all_preds']>>
            /\ pc' = "ind_done"
            /\ UNCHANGED error
    /\ UNCHANGED <<configVars, times_fallback, all_preds_per_model, ensemble_filenames,
                   idx, model_preds, model_filenames, batch_no, probs, preds,
                   stacked_preds, analysisVars, weighted_preds, ensemble_preds,
                   classification_threshold, test_files, all_filenames, edaVars,
                   otherVars>>

\* ------------------------------------------------------------ training and validation
\* threshold_range = np.arange(0.20, 0.51, 0.02), in hundredths
RangeLen == (sweep_stop - sweep_start + sweep_step - 1) \div sweep_step
threshold_range == [i \in 1 .. RangeLen |-> sweep_start + (i - 1) * sweep_step]

\* validation probabilities, in hundredths, and the validation sets of ValRows images
ValProbLevels == {10, 31, 60}
ValidationProbs == [1 .. ValRows -> [1 .. num_classes -> ValProbLevels]]
ValidationLabels == [1 .. ValRows -> [1 .. num_classes -> {0, 1}]]

\* (all_probs > t).astype(np.float32)
SweepPreds(p, t) == [i \in 1 .. Len(p) |-> [j \in 1 .. Len(p[i]) |-> IF p[i][j] > t THEN 1 ELSE 0]]

\* f1_score(labels, preds, average='micro'): 2 TP / (2 TP + FP + FN) over all
\* cells, and 0 when nothing is labelled and nothing is predicted
CountCells(labels, predicted, l, q) ==
    Cardinality({c \in (1 .. Len(labels)) \X (1 .. Len(labels[1])) :
                    labels[c[1]][c[2]] = l /\ predicted[c[1]][c[2]] = q})

f1_score(labels, predicted) ==
    LET TP == CountCells(labels, predicted, 1, 1)
        FP == CountCells(labels, predicted, 0, 1)
        FN == CountCells(labels, predicted, 1, 0)
    IN  IF 2 * TP + FP + FN = 0 THEN 0 ELSE PyDiv(2 * TP, 2 * TP + FP + FN)

\* the sweep loop of find_optimal_threshold after its first n thresholds
RECURSIVE Sweep(_, _, _)
Sweep(p, labels, n) ==
    IF n = 0 THEN [best_thresh |-> 0, best_f1 |-> 0, f1_scores |-> <<>>]
    ELSE LET before == Sweep(p, labels, n - 1)
             t == threshold_range[n]
             temp_f1 == f1_score(labels, SweepPreds(p, t))
         IN  IF temp_f1 > before.best_f1
             THEN [best_thresh |-> t, best_f1 |-> temp_f1,
                   f1_scores |-> Append(before.f1_scores, temp_f1)]
             ELSE [best_thresh |-> before.best_thresh, best_f1 |-> before.best_f1,
                   f1_scores |-> Append(before.f1_scores, temp_f1)]

\* best_thresh, best_f1 and the list the mean and the deviation are taken from
find_optimal_threshold(p, labels) == Sweep(p, labels, Len(threshold_range))

\* StepLR(step_size=5, gamma=0.5).step(): the learning rate after the step that
\* takes the counter to le
StepLR(le, rate) == IF le % step_size = 0 THEN rate \div 2 ELSE rate

\* initialize_hyperparameters(model) and num_epochs = 10 of the train/validation run
initialize_hyperparameters ==
    /\ pc = "train_setup"
    /\ lr' = initial_lr
    /\ last_epoch' = 0
    /\ num_epochs' = validation_epochs
    /\ epoch' = 0
    /\ pc' = "train_val"
    /\ UNCHANGED <<error, configVars, loopVars, stacked_preds, analysisVars, submitVars,
                   indVars, edaVars, rateVars, pending, sweepVars, ckptVars>>

\* one epoch of the train/validation loop: training, validation on the outputs
\* p and the labels, scheduler.step(), the threshold sweep, scheduler.step()
TrainValEpoch(p, labels) ==
    /\ pc = "train_val"
    /\ epoch < num_epochs
    /\ all_probs' = p
    /\ all_labels' = labels
    /\ best_thresh' = find_optimal_threshold(p, labels).best_thresh
    /\ best_f1' = find_optimal_threshold(p, labels).best_f1
    /\ f1_scores' = find_optimal_threshold(p, labels).f1_scores
    /\ last_epoch' = last_epoch + 2
    /\ lr' = StepLR(last_epoch + 2, StepLR(last_epoch + 1, lr))
    /\ epoch' = epoch + 1
    /\ pc' = IF epoch + 1 = num_epochs THEN "val_done" ELSE "train_val"
    /\ UNCHANGED <<error, configVars, loopVars, stacked_preds, analysisVars, submitVars,
                   indVars, edaVars, rateVars, pending, num_epochs, ckptVars>>

\* the model and the hyperparameters are initialised again, num_epochs = 6
FullTrainSetup ==
    /\ pc = "val_done"
    /\ lr' = initial_lr
    /\ last_epoch' = 0
    /\ num_epochs' = full_epochs
    /\ epoch' = 0
    /\ pc' = "full_train"
    /\ UNCHANGED <<error, configVars, loopVars, stacked_preds, analysisVars, submitVars,
                   indVars, edaVars, rateVars, pending, sweepVars, ckptVars>>

\* one epoch of the full training loop: training, scheduler.step()
FullTrainEpoch ==
    /\ pc = "full_train"
    /\ epoch < num_epochs
    /\ last_epoch' = last_epoch + 1
    /\ lr' = StepLR(last_epoch + 1, lr)
    /\ epoch' = epoch + 1
    /\ pc' = IF epoch + 1 = num_epochs THEN "train_done" ELSE "full_train"
    /\ UNCHANGED <<error, configVars, loopVars, stacked_preds, analysisVars, submitVars,
                   indVars, edaVars, rateVars, pending, num_epochs, sweepVars,
                   ckptVars>>

\* ------------------------------------------------------------ checkpoint loading
\* A state-dict key is a sequence of parts; the part "module." stands for the
\* substring 'module.' and no other parts join to form it.  A state dict is the
\* list of its entries in insertion order, with distinct keys; tensors are numbered.
KeyParts == {"module.", "layers.", "weight"}
Keys == UNION {[1 .. n -> KeyParts] : n \in 1 .. MaxKeyLen}
StateDicts ==
    {sd \in UNION {[1 .. n -> [key : Keys, value : 1 .. MaxEntries]] : n \in 0 .. MaxEntries} :
        \A a, b \in 1 .. Len(sd) :
           /\ sd[a].value = a
           /\ sd[a].key = sd[b].key => a = b}

\* k.replace("module.", ""): every occurrence is removed
RECURSIVE Replace(_)
Replace(k) ==
    IF k = <<>> THEN <<>>
    ELSE IF Head(k) = "module." THEN Replace(Tail(k))
    ELSE <<Head(k)>> \o Replace(Tail(k))

\* d[key] = value on an insertion-ordered dict
DictSet(d, key, value) ==
    IF \E a \in 1 .. Len(d) : d[a].key = key
    THEN [a \in 1 .. Len(d) |-> IF d[a].key = key THEN [key |-> key, value |-> value] ELSE d[a]]
    ELSE Append(d, [key |-> key, value |-> value])

\* {k.replace("module.", ""): v for k, v in state_dict.items()}, over the first n items
RECURSIVE Comprehension(_, _)
Comprehension(sd, n) ==
    IF n = 0 THEN <<>>
    ELSE DictSet(Comprehension(sd, n - 1), Replace(sd[n].key), sd[n].value)

remove_module_prefix(sd) == Comprehension(sd, Len(sd))

\* k.startswith('module.')
StartsWithModule(k) == k # <<>> /\ Head(k) = "module."

\* state_dict = torch.load(filepath, map_location=device)
torch_load(sd) ==
    /\ pc = "checkpoint"
    /\ checkpoint' = sd
    /\ state_dict' = sd
    /\ pc' = "checkpoint_loaded"
    /\ UNCHANGED <<error, configVars, loopVars, stacked_preds, analysisVars, submitVars,
                   indVars, edaVars, rateVars, pending, trainVars, sweepVars, loaded>>

\* if any(k.startswith('module.') ...): state_dict = remove_module_prefix(state_dict)
StripPrefix ==
    /\ pc = "checkpoint_loaded"
    /\ state_dict' =
          IF \E a \in 1 .. Len(state_dict) : StartsWithModule(state_dict[a].key)
          THEN remove_module_prefix(state_dict)
          ELSE state_dict
    /\ pc' = "checkpoint_ready"
    /\ UNCHANGED <<error, configVars, loopVars, stacked_preds, analysisVars, submitVars,
                   indVars, edaVars, rateVars, pending, trainVars, sweepVars, checkpoint,
                   loaded>>

\* model.load_state_dict(state_dict)
load_state_dict ==
    /\ pc = "checkpoint_ready"
    /\ loaded' = state_dict
    /\ pc' = "checkpoint_done"
    /\ UNCHANGED <<error, configVars, loopVars, stacked_preds, analysisVars, submitVars,
                   indVars, edaVars, rateVars, pending, trainVars, sweepVars, checkpoint,
                   state_dict>>

\* ------------------------------------------------------------ EDA notebook
\* a submission file: a Filename column in any order and one label row per filename
FilenameColumns == UNION {[1 .. n -> Files] : n \in 0 .. MaxFiles}
LabelRows == [1 .. num_classes -> {0, 1}]
SubmissionFrames ==
    UNION {{[Filename |-> f, labels |-> l] : l \in [1 .. Len(f) -> LabelRows]} :
              f \in FilenameColumns}

\* pd.read_csv(f) for one more entry of submission_files
read_csv(df) ==
    /\ pc = "eda_read"
    /\ submissions' = Append(submissions, df)
    /\ UNCHANGED <<pc, error, configVars, loopVars, stacked_preds, analysisVars,
                   submitVars, indVars, disagreement_matrix, rateVars, otherVars>>

\* (a == b).all() on two numpy arrays: "raise" when the shapes do not broadcast
NumpyAllEqual(a, b) ==
    IF Len(a) = Len(b)
    THEN IF \A i \in 1 .. Len(a) : a[i] = b[i] THEN "true" ELSE "false"
    ELSE IF Len(a) = 1
    THEN IF \A i \in 1 .. Len(b) : b[i] = a[1] THEN "true" ELSE "false"
    ELSE IF Len(b) = 1
    THEN IF \A i \in 1 .. Len(a) : a[i] = b[1] THEN "true" ELSE "false"
    ELSE "raise"

\* the outcome of the loop of filename assertions over submissions[1:]
RECURSIVE FilenameAsserts(_, _)
FilenameAsserts(subs, k) ==
    IF k > Len(subs) THEN "pass"
    ELSE LET r == NumpyAllEqual(subs[k].Filename, subs[1].Filename)
         IN  IF r = "true" THEN FilenameAsserts(subs, k + 1)
             ELSE IF r = "false" THEN "AssertionError"
             ELSE "raise"

\* np.sum(np.any(preds[i] != preds[j], axis=1))
Disagreements(a, b) == Cardinality({r \in 1 .. Len(a) : a[r] # b[r]})

\* the filename assertions, np.stack and the disagreement matrix
Crosstab ==
    /\ pc = "eda_read"
    /\ LET outcome == FilenameAsserts(submissions, 2)
           labels == [k \in 1 .. Len(submissions) |-> submissions[k].labels]
       IN  IF outcome = "AssertionError"
           THEN /\ Raise("AssertionError")
                /\ UNCHANGED disagreement_matrix
           ELSE IF outcome = "raise"
           THEN /\ \E e \in {"ValueError", "AttributeError"} : Raise(e)
                /\ UNCHANGED disagreement_matrix
           ELSE IF ~Stackable(labels)
           THEN /\ Raise("ValueError")
                /\ UNCHANGED disagreement_matrix
           ELSE /\ disagreement_matrix' =
                      [i \in 1 .. Len(labels) |->
                          [j \in 1 .. Len(labels) |-> Disagreements(labels[i], labels[j])]]
                /\ pc' = "eda_done"
                /\ UNCHANGED error
    /\ UNCHANGED <<configVars, loopVars, stacked_preds, analysisVars, submitVars,
                   indVars, submissions, rateVars, otherVars>>

\* ------------------------------------------------------------ specifications
EnsembleRun ==
    \/ NormalizeWeights
    \/ StartPrediction
    \/ ThresholdBatch
    \/ FallbackBatch
    \/ FinishModel
    \/ Stack
    \/ ConflictAnalysis
    \/ InfluenceBegin
    \/ InfluenceStep
    \/ SkipAnalysis
    \/ Submission

Next ==
    \/ /\ Len(models_info) < MaxModels
       /\ \E t \in Thresholds, w \in RawWeights, l \in Listings : load_model_info(t, w, l)
    \/ EnsembleRun
    \/ \E t \in Thresholds, l \in Listings : IndSetup(t, l)
    \/ IndThresholdBatch
    \/ IndFallbackBatch
    \/ IndSubmission
    \/ /\ Len(submissions) < MaxModels
       /\ \E df \in SubmissionFrames : read_csv(df)
    \/ Crosstab

\* every notebook, over every configuration within the bounds
Spec == Init /\ [][Next]_vars

\* the ensemble notebook alone
InitEnsemble == Init /\ pc = "load"

\* the ensemble notebook's configuration cell alone, over a wider range of raw weights
WeightModels == 3
MaxWideWeight == 4
NextWeights ==
    \/ /\ Len(models_info) < WeightModels
       /\ \E w \in -1 .. MaxWideWeight : load_model_info(1, w, <<1>>)
    \/ NormalizeWeights
    \/ StartPrediction

SpecWeights == InitEnsemble /\ [][NextWeights]_vars

\* the ensemble notebook with up to three models, one valid threshold and one
\* test image
VoteModels == 3
VoteRawWeights == {0, 2, 3, 5}
NextVote ==
    \/ /\ Len(models_info) < VoteModels
       /\ \E w \in VoteRawWeights : load_model_info(1, w, <<1>>)
    \/ EnsembleRun

SpecVote == InitEnsemble /\ [][NextVote]_vars

\* the ensemble notebook with up to two models, one valid threshold and one test
\* image, where a finished run may be followed by another run in the same kernel
RerunModels == 2
RerunRawWeights == {1, 2}
NextRerun ==
    \/ /\ Len(models_info) < RerunModels
       /\ \E w \in RerunRawWeights : load_model_info(1, w, <<1>>)
    \/ EnsembleRun
    \/ Rerun

SpecRerun == InitEnsemble /\ [][NextRerun]_vars

\* the ensemble notebook with up to four models of unequal raw weights, one valid
\* threshold and one test image
UnequalModels == 4
UnequalRawWeights == {1, 4}
NextUnequal ==
    \/ /\ Len(models_info) < UnequalModels
       /\ \E w \in UnequalRawWeights : load_model_info(1, w, <<1>>)
    \/ EnsembleRun

SpecUnequal == InitEnsemble /\ [][NextUnequal]_vars

\* the ensemble notebook with up to three models, one valid threshold and one test
\* image, where the iterations of the leave-one-out loop run in any order
AnyOrderModels == 3
NextAnyOrder ==
    \/ /\ Len(models_info) < AnyOrderModels
       /\ \E w \in UnequalRawWeights : load_model_info(1, w, <<1>>)
    \/ NormalizeWeights
    \/ StartPrediction
    \/ ThresholdBatch
    \/ FallbackBatch
    \/ FinishModel
    \/ Stack
    \/ ConflictAnalysis
    \/ InfluenceBegin
    \/ InfluenceFork
    \/ \E t \in pending : InfluenceTask(t[1], t[2])
    \/ InfluenceJoin
    \/ Submission

SpecAnyOrder == InitEnsemble /\ [][NextAnyOrder]_vars

\* the training cells of the individual notebook
InitTrain == pc = "train_setup" /\ InitialValues

NextTrain ==
    \/ initialize_hyperparameters
    \/ \E p \in ValidationProbs, labels \in ValidationLabels : TrainValEpoch(p, labels)
    \/ FullTrainSetup
    \/ FullTrainEpoch

SpecTrain == InitTrain /\ [][NextTrain]_vars

\* the checkpoint loading steps of load_model_info
InitCheckpoint == pc = "checkpoint" /\ InitialValues

NextCheckpoint ==
    \/ \E sd \in StateDicts : torch_load(sd)
    \/ StripPrefix
    \/ load_state_dict

SpecCheckpoint == InitCheckpoint /\ [][NextCheckpoint]_vars

\* ------------------------------------------------------------ claims
\* the threshold the prediction loop at the current position compares against
ThresholdInUse ==
    IF pc \in {"ind_predict", "ind_fallback"} THEN classification_threshold
    ELSE models_info[idx].threshold

\* the example of the specification: weights [0.5, 0.3, 0.2] and three ballots
ExampleWeights ==
    LET raw == <<PyFloat(5), PyFloat(3), PyFloat(2)>>
    IN  [k \in 1 .. 3 |-> ToFloat32(PyDiv(raw[k], PySum(raw)))]
ExampleBallots ==
    << <<<<1, 0>>, <<1, 1>>>>, <<<<1, 0>>, <<0, 1>>>>, <<<<0, 1>>, <<1, 0>>>> >>

\* C1: in the influence analysis and in the submission cell, a cell of the decision
\* is 1 exactly when the float32 sum over the models of weight times ballot is
\* strictly greater than 0.5 (a sum of exactly 0.5 gives 0); the weights
\* [0.5, 0.3, 0.2] with the ballots of the example give [[1, 0], [1, 1]].
C1_WeightedVote ==
    /\ ensemble_decision # <<>> =>
          \A i \in 1 .. Len(ensemble_decision) : \A j \in 1 .. Len(ensemble_decision[i]) :
             /\ weighted_votes[i][j] =
                   VoteCell(stacked_preds, weights, i, j, Len(stacked_preds))
             /\ ensemble_decision[i][j] \in {0, 1}
             /\ ensemble_decision[i][j] = 1 <=> weighted_votes[i][j] > Half
    /\ ensemble_preds # <<>> =>
          \A i \in 1 .. Len(ensemble_preds) : \A j \in 1 .. Len(ensemble_preds[i]) :
             /\ weighted_preds[i][j] =
                   VoteCell(stacked_preds, weights, i, j, Len(stacked_preds))
             /\ ensemble_preds[i][j] \in {0, 1}
             /\ ensemble_preds[i][j] = 1 <=> weighted_preds[i][j] > Half
    /\ Decide(Einsum(ExampleBallots, ExampleWeights)) = <<<<1, 0>>, <<1, 1>>>>

\* C1 witness: a submission of three models with weights 0.5, 0.3, 0.2 in which one
\* cell has a weighted sum of exactly 0.5 and is 0 and another is above 0.5 and is 1.
C1_Witness ==
    /\ pc = "done"
    /\ weights = ExampleWeights
    /\ \E i \in 1 .. Len(ensemble_preds) : \E j1, j2 \in 1 .. Len(ensemble_preds[i]) :
          /\ weighted_preds[i][j1] = Half
          /\ ensemble_preds[i][j1] = 0
          /\ weighted_preds[i][j2] > Half
          /\ ensemble_preds[i][j2] = 1

\* C2: after threshold and fallback every row of every prediction matrix has at
\* least one label, in the current batch, in the batches collected so far, in each
\* model's concatenated matrix and in the stacked tensor, in both notebooks.
C2_EveryRowHasLabel ==
    LET NonEmptyRows(mat) == \A i \in 1 .. Len(mat) : RowSum(mat[i]) >= 1
    IN  /\ pc \in {"predict", "ind_predict"} => NonEmptyRows(preds)
        /\ \A b \in 1 .. Len(model_preds) : NonEmptyRows(model_preds[b])
        /\ \A k \in 1 .. Len(all_preds_per_model) : NonEmptyRows(all_preds_per_model[k])
        /\ \A k \in 1 .. Len(stacked_preds) : NonEmptyRows(stacked_preds[k])
        /\ pc = "ind_predict" => \A b \in 1 .. Len(all_preds) : NonEmptyRows(all_preds[b])
        /\ pc = "ind_done" => NonEmptyRows(all_preds)

\* C2 witness: two models are stacked and every one of their rows needed the fallback.
C2_Witness ==
    /\ Len(stacked_preds) = 2
    /\ times_fallback = 2 * Len(stacked_preds[1])
    /\ Len(stacked_preds[1]) = MaxFiles

\* C3: the fallback step turns every all-zero row of the batch into the row that is
\* 1 exactly at the first column holding the row's maximum probability.
C3_FallbackFirstMax ==
    [][(pc \in {"fallback", "ind_fallback"}) =>
       (
          \A i \in 1 .. Len(preds) :
             RowSum(preds[i]) = 0 =>
                /\ RowSum(preds'[i]) = 1
                /\ \E j \in 1 .. num_classes :
                      /\ \A k \in 1 .. num_classes : probs[i][k] <= probs[i][j]
                      /\ \A k \in 1 .. (j - 1) : probs[i][k] < probs[i][j]
                      /\ preds'[i] = [k \in 1 .. num_classes |-> IF k = j THEN 1 ELSE 0]
       )]_vars

\* C3 witness: a row whose probabilities are all equal and not above the threshold
\* has been given its first label by the fallback.
C3_Witness ==
    /\ pc = "predict"
    /\ times_fallback > 0
    /\ \E i \in 1 .. Len(preds) :
          /\ \A j \in 1 .. num_classes :
                probs[i][j] = probs[i][1] /\ probs[i][j] <= ThresholdInUse
          /\ probs[i][1] > 0
          /\ preds[i] = [k \in 1 .. num_classes |-> IF k = 1 THEN 1 ELSE 0]

\* C4: before the fallback a prediction is 1 exactly where the probability is
\* strictly above the threshold; the fallback step leaves every row with an entry
\* above the threshold as it is and adds to the counter the number of rows without.
C4_StrictThreshold ==
    [][(pc \in {"fallback", "ind_fallback"}) =>
       (
          /\ \A i \in 1 .. Len(preds) : \A j \in 1 .. num_classes :
                /\ preds[i][j] \in {0, 1}
                /\ preds[i][j] = 1 <=> probs[i][j] > ThresholdInUse
          /\ \A i \in 1 .. Len(preds) :
                (\E j \in 1 .. num_classes : probs[i][j] > ThresholdInUse)
                   => preds'[i] = preds[i]
          /\ times_fallback' = times_fallback + Cardinality(
                {i \in 1 .. Len(preds) :
                    \A j \in 1 .. num_classes : probs[i][j] <= ThresholdInUse})
       )]_vars

\* C4 witness: a batch was processed in which a probability equal to the threshold
\* gave 0, one above it gave 1, and the fallback counter stayed at 0.
C4_Witness ==
    /\ pc = "predict"
    /\ preds # <<>>
    /\ times_fallback = 0
    /\ \E i \in 1 .. Len(preds) : \E j1, j2 \in 1 .. num_classes :
          /\ probs[i][j1] = ThresholdInUse
          /\ preds[i][j1] = 0
          /\ probs[i][j2] > ThresholdInUse
          /\ preds[i][j2] = 1

\* C5: when a model's filename list differs from the first model's, the step that
\* compares them ends the run with the assertion error and realigns nothing; when
\* the lists are equal it raises nothing; no stacked tensor exists unless every
\* loader listed the same files in the same order.  The EDA notebook's check of the
\* submission files likewise ends in an error whenever a Filename column differs
\* from the first one, with the assertion error when it is a reordering of it.
C5_OrderMismatchFails ==
    [][(/\ (/\ pc = "predict"
            /\ batch_no * batch_size >= Len(models_info[idx].loader_test)
            /\ model_preds # <<>>
            /\ ensemble_filenames # <<>>)
           => IF model_filenames # ensemble_filenames[1]
              THEN /\ pc' = "error"
                   /\ error' = "AssertionError"
                   /\ ensemble_filenames' = ensemble_filenames
                   /\ model_filenames' = model_filenames
                   /\ all_preds_per_model' =
                         Append(all_preds_per_model, Cat(model_preds))
                   /\ stacked_preds' = <<>>
              ELSE pc' # "error"
        /\ stacked_preds' # <<>> =>
              \A k \in 1 .. Len(models_info') :
                 models_info'[k].loader_test = ensemble_filenames'[1]
        /\ (pc = "eda_read" /\ pc' # "eda_read") =>
              /\ submissions' = submissions
              /\ (\E k \in 1 .. Len(submissions) :
                     submissions[k].Filename # submissions[1].Filename)
                    => pc' = "error"
              /\ (\E k \in 1 .. Len(submissions) :
                     /\ submissions[k].Filename # submissions[1].Filename
                     /\ \A n \in 1 .. Len(submissions) :
                           Len(submissions[n].Filename) = Len(submissions[1].Filename))
                    => error' = "AssertionError"
              /\ (/\ submissions # <<>>
                  /\ \A k \in 1 .. Len(submissions) :
                        submissions[k].Filename = submissions[1].Filename)
                    => pc' = "eda_done"
       )]_vars

\* C5 witness: the second model listed as many files as the first but not the same
\* ones, and the run ended with the assertion error before anything was stacked.
C5_Witness ==
    /\ pc = "error"
    /\ error = "AssertionError"
    /\ Len(all_preds_per_model) = 2
    /\ Len(model_filenames) = Len(ensemble_filenames[1])
    /\ stacked_preds = <<>>

\* C6: whenever the raw weights sum to zero or less, or a processed model's file
\* list or matrix shape differs from the first model's, the run does not complete
\* and no weighted vote, decision or submission exists.
C6_NoPartialAggregation ==
    LET degenerate ==
            /\ pc \notin {"load", "ind_setup", "eda_read"}
            /\ Len(models_info) > 0
            /\ total_weight <= 0
        order ==
            \E k \in 1 .. Len(all_preds_per_model) :
                models_info[k].loader_test # models_info[1].loader_test
        shape ==
            \E k \in 1 .. Len(all_preds_per_model) :
                Shape(all_preds_per_model[k]) # Shape(all_preds_per_model[1])
    IN  (degenerate \/ order \/ shape) =>
            /\ pc # "done"
            /\ weighted_votes = <<>>
            /\ ensemble_decision = <<>>
            /\ weighted_preds = <<>>
            /\ ensemble_preds = <<>>
            /\ submission = <<>>

\* C7 (as stated): after normalisation of non-negative raw weights with positive
\* sum, every weight is its raw weight divided by the sum, is non-negative, and the
\* weights sum to exactly 1.
C7_SumExactlyOne ==
    (/\ pc \notin {"load", "error", "ind_setup", "eda_read"}
     /\ Len(models_info) > 0
     /\ \A k \in 1 .. Len(models_info) : models_info[k].raw_weight >= 0)
    => /\ \A k \in 1 .. Len(models_info) :
             /\ models_info[k].weight =
                   PyDiv(models_info[k].raw_weight, total_weight)
             /\ models_info[k].weight >= 0
       /\ PySum([k \in 1 .. Len(models_info) |-> models_info[k].weight]) = One

\* C7 (amended): after normalisation of non-negative raw weights with positive sum,
\* every weight is the floating-point quotient of its raw weight and the sum, is
\* non-negative, and the weights sum to 1 within one machine epsilon per model.
C7_SumWithinTolerance ==
    (/\ pc \notin {"load", "error", "ind_setup", "eda_read"}
     /\ Len(models_info) > 0
     /\ \A k \in 1 .. Len(models_info) : models_info[k].raw_weight >= 0)
    => LET total == PySum([k \in 1 .. Len(models_info) |-> models_info[k].weight])
           epsilon == Pow2(FracBits - DoubleBits + 1)
       IN  /\ total_weight > 0
           /\ \A k \in 1 .. Len(models_info) :
                 /\ models_info[k].weight =
                       PyDiv(models_info[k].raw_weight, total_weight)
                 /\ models_info[k].weight >= 0
           /\ total - One <= Len(models_info) * epsilon
           /\ One - total <= Len(models_info) * epsilon

\* C7 witness: three non-negative raw weights were normalised and the weights do
\* not sum to exactly 1.
C7_Witness ==
    /\ pc = "predict_init"
    /\ Len(models_info) = 3
    /\ \A k \in 1 .. Len(models_info) : models_info[k].raw_weight >= 0
    /\ PySum([k \in 1 .. Len(models_info) |-> models_info[k].weight]) # One

\* C8: once the raw weights have been summed to zero or less, the run is in an
\* error state and no normalised weight and no weights tensor exists.
C8_DegenerateWeightsFail ==
    (/\ pc \notin {"load", "ind_setup", "eda_read"}
     /\ Len(models_info) > 0
     /\ total_weight <= 0)
    => /\ pc = "error"
       /\ weights = <<>>
       /\ \A k \in 1 .. Len(models_info) : "weight" \notin DOMAIN models_info[k]

\* C9: no prediction matrix is ever produced for a model whose threshold is not
\* strictly between 0 and 1.
C9_InvalidThresholdFails ==
    \A k \in 1 .. Len(models_info) :
        models_info[k].threshold \notin 1 .. (PScale - 1) =>
            /\ Len(all_preds_per_model) < k
            /\ ~(idx = k /\ model_preds # <<>>)

\* C10: every matrix handed to the vote has one row per test file and num_classes
\* columns; a model whose matrix differs in shape from the first model's ends the
\* run in an error before anything is stacked; the vote matrices have the shape of
\* the stacked matrices.
C10_ShapeConsistency ==
    /\ \A k \in 1 .. Len(all_preds_per_model) :
          Shape(all_preds_per_model[k])[2] = num_classes
    /\ \A k \in 1 .. Len(stacked_preds) :
          Shape(stacked_preds[k]) = <<Len(ensemble_filenames[1]), num_classes>>
    /\ (\E k \in 1 .. Len(all_preds_per_model) :
           Shape(all_preds_per_model[k]) # Shape(all_preds_per_model[1]))
          => pc = "error" /\ stacked_preds = <<>> /\ weighted_preds = <<>>
    /\ weighted_votes # <<>> => Shape(weighted_votes) = Shape(stacked_preds[1])
    /\ weighted_preds # <<>> => Shape(weighted_preds) = Shape(stacked_preds[1])
    /\ ensemble_preds # <<>> => Shape(ensemble_preds) = Shape(stacked_preds[1])

\* C10 witness: the second model predicted a different number of rows than the
\* first and the run ended in an error with nothing stacked.
C10_Witness ==
    /\ pc = "error"
    /\ Len(all_preds_per_model) = 2
    /\ Shape(all_preds_per_model[2]) # Shape(all_preds_per_model[1])
    /\ stacked_preds = <<>>

C12_Decisiveness ==
    LET RECURSIVE OthersVote(_, _, _, _)
        OthersVote(k, i, j, n) ==
            IF n = 0 THEN 0
            ELSE IF n = k THEN OthersVote(k, i, j, n - 1)
            ELSE F32Add(OthersVote(k, i, j, n - 1), weights[n] * stacked_preds[n][i][j])
        N == Len(stacked_preds)
        Cells == (1 .. Len(stacked_preds[1])) \X (1 .. num_classes)
        Flipped(k) ==
            {c \in Cells :
                (OthersVote(k, c[1], c[2], N) > Half)
                   # (VoteCell(stacked_preds, weights, c[1], c[2], N) > Half)}
    IN  decisive_votes # <<>> =>
           /\ Len(decisive_votes) = N
           /\ \A k \in 1 .. N :
                 (k < m \/ pc # "leave_one_out") =>
                    /\ decisive_votes[k] = Cardinality(Flipped(k))
                    /\ decisive_votes[k] \in 0 .. Cardinality(Cells)
           /\ pc \in {"submit", "done"} => total_votes = Cardinality(Cells)

\* C12 witness: with the weights 0.5, 0.3, 0.2 the loop has finished; removing the
\* first model flips a cell, removing the last one flips none.
C12_Witness ==
    /\ pc = "done"
    /\ weights = ExampleWeights
    /\ decisive_votes # <<>>
    /\ decisive_votes[1] > 0
    /\ decisive_votes[3] = 0
    /\ stacked_preds[3] # stacked_preds[1]

\* C13: for a model whose normalised weight is 0, the decision of the stacked
\* ballots is the same for every ballot that model could have cast, the decision
\* without the model equals the decision with it, its decisive count is 0 once
\* computed, and the conflict count still treats it as a voter: a cell is counted
\* whenever any two of the N ballots differ, the zero-weight model's included.
C13_ZeroWeightModel ==
    LET N == Len(stacked_preds)
        Rows == 1 .. Len(stacked_preds[1])
        Ballots == [Rows -> [1 .. num_classes -> {0, 1}]]
        decision == Decide(Einsum(stacked_preds, weights))
    IN  stacked_preds # <<>> =>
           /\ \A k \in 1 .. N :
                 weights[k] = 0 =>
                    /\ \A b \in Ballots :
                          Decide(Einsum([stacked_preds EXCEPT ![k] = b], weights)) = decision
                    /\ NewDecision(stacked_preds, weights, k) = decision
                    /\ (decisive_votes # <<>> /\ (k < m \/ pc # "leave_one_out"))
                          => decisive_votes[k] = 0
           /\ total_votes > 0 =>
                 conflict_votes =
                    Cardinality({c \in Rows \X (1 .. num_classes) :
                                    \E a, b \in 1 .. N :
                                       stacked_preds[a][c[1]][c[2]]
                                          # stacked_preds[b][c[1]][c[2]]})

\* C13 witness: a run has finished in which a model of weight 0 cast a ballot that
\* differs from the ballot all the other models agree on: it decided nothing, and
\* the cells where it differs are counted as contested.
C13_Witness ==
    /\ pc = "done"
    /\ Len(stacked_preds) = 3
    /\ \E k \in 1 .. 3 :
          /\ weights[k] = 0
          /\ \A a, b \in (1 .. 3) \ {k} : stacked_preds[a] = stacked_preds[b]
          /\ \E a \in (1 .. 3) \ {k} : stacked_preds[a] # stacked_preds[k]
          /\ decisive_votes # <<>>
          /\ decisive_votes[k] = 0
          /\ conflict_votes > 0
          /\ ensemble_preds # stacked_preds[k]

\* C14: once the conflict analysis has run, conflict_votes is the number of cells
\* in which the number of models voting 1 is neither 0 nor N and total_votes is
\* S * C; the count is 0 when all N matrices are identical and equals total_votes
\* when every cell has two models that disagree; it is determined by the stacked
\* ballots alone, whatever the weights and the weighted decision are.
C14_ConflictRate ==
    LET N == Len(stacked_preds)
        Cells == (1 .. Len(stacked_preds[1])) \X (1 .. num_classes)
        Ayes(c) == Cardinality({k \in 1 .. N : stacked_preds[k][c[1]][c[2]] = 1})
        Contested == {c \in Cells : Ayes(c) # 0 /\ Ayes(c) # N}
    IN  total_votes > 0 =>
           /\ total_votes = Cardinality(Cells)
           /\ conflict_votes = Cardinality(Contested)
           /\ conflict_votes \in 0 .. total_votes
           /\ (\A a, b \in 1 .. N : stacked_preds[a] = stacked_preds[b])
                 => conflict_votes = 0
           /\ (\A c \in Cells : \E a, b \in 1 .. N :
                  stacked_preds[a][c[1]][c[2]] # stacked_preds[b][c[1]][c[2]])
                 => conflict_votes = total_votes

\* C14 witness: three models, every cell contested, one cell with a single vote
\* and one with two, and the weighted decision differs between these cells.
C14_Witness ==
    /\ pc = "done"
    /\ Len(stacked_preds) = 3
    /\ conflict_votes = total_votes
    /\ total_votes > 0
    /\ \E i \in 1 .. Len(stacked_preds[1]) : \E j1, j2 \in 1 .. num_classes :
          /\ VoteSum(stacked_preds, i, j1) = 1
          /\ VoteSum(stacked_preds, i, j2) = 2
          /\ ensemble_preds[i][j1] # ensemble_preds[i][j2]

\* C15: the iteration of the influence loop for model m sets agree_with_vote[m] to
\* the number of cells where the model's ballot equals the decision, cells where
\* both are 0 counted like cells where both are 1; the number lies between 0 and
\* S * C, the other models' entries are kept, and neither the ballots nor the
\* decision change; after the last iteration total_votes is S * C.
C15_Agreement ==
    [][(pc = "leave_one_out") =>
       (
          LET Cells == (1 .. Len(stacked_preds[1])) \X (1 .. num_classes)
              Both(v) == {c \in Cells : /\ stacked_preds[m][c[1]][c[2]] = v
                                        /\ ensemble_decision[c[1]][c[2]] = v}
          IN  /\ agree_with_vote'[m] = Cardinality(Both(1)) + Cardinality(Both(0))
              /\ agree_with_vote'[m] \in 0 .. Cardinality(Cells)
              /\ \A k \in 1 .. Len(stacked_preds) :
                    k # m => agree_with_vote'[k] = agree_with_vote[k]
              /\ stacked_preds' = stacked_preds
              /\ weights' = weights
              /\ weighted_votes' = weighted_votes
              /\ ensemble_decision' = ensemble_decision
              /\ pc' = "submit" => total_votes' = Cardinality(Cells)
       )]_vars

\* C15 witness: after the loop one model agrees with the decision in every cell, a
\* cell decided 0 among them, and another model agrees in none.
C15_Witness ==
    /\ pc = "done"
    /\ agree_with_vote # <<>>
    /\ \E k1, k2 \in 1 .. Len(stacked_preds) :
          /\ agree_with_vote[k1] = total_votes
          /\ agree_with_vote[k2] = 0
    /\ \E i \in 1 .. Len(ensemble_decision) : \E j \in 1 .. num_classes :
          ensemble_decision[i][j] = 0

\* C16: the fallback counter starts a prediction run at 0; the fallback step of a
\* batch adds to it the number of rows of that batch without a probability strictly
\* above the threshold of the model in use; no other step changes it, so at the end
\* of the run it is the number of (model, sample) pairs without such a probability,
\* never more than the number of rows that hold exactly one label.  The steps that
\* vote compute their matrices from the stacked ballots and the weights and leave
\* the counter as it is.
C16_FallbackCounter ==
    [][
       LET Unlabelled ==
               {i \in 1 .. Len(probs) :
                   \A j \in 1 .. num_classes : probs[i][j] <= ThresholdInUse}
           OneLabel(mat) == Cardinality({i \in 1 .. Len(mat) : RowSum(mat[i]) = 1})
           Processed == Cat(all_preds_per_model') \o Cat(model_preds')
       IN  /\ IF pc \in {"fallback", "ind_fallback"}
              THEN times_fallback' = times_fallback + Cardinality(Unlabelled)
              ELSE IF pc \in {"predict_init", "ind_setup"}
              THEN times_fallback' = 0
              ELSE times_fallback' = times_fallback
           /\ pc' \in {"predict", "fallback", "stack"} =>
                 times_fallback' <= OneLabel(Processed)
           /\ pc' = "ind_predict" => times_fallback' <= OneLabel(Cat(all_preds'))
           /\ pc' = "ind_done" => times_fallback' <= OneLabel(all_preds')
           /\ (pc = "influence" /\ pc' = "leave_one_out") =>
                 ensemble_decision' = Decide(Einsum(stacked_preds, weights))
           /\ pc = "submit" =>
                 ensemble_preds' = Decide(Einsum(stacked_preds, weights))
    ]_vars

\* C16 witness: two models have predicted two images each; the fallback fired for
\* exactly one of the four rows, and another row holds two labels.
C16_Witness ==
    /\ pc = "stack"
    /\ Len(all_preds_per_model) = 2
    /\ Len(all_preds_per_model[1]) = 2
    /\ Len(all_preds_per_model[2]) = 2
    /\ times_fallback = 1
    /\ \E k, i \in 1 .. 2 : RowSum(all_preds_per_model[k][i]) = 2

C18_Determinism ==
    [][
       LET ballots == all_preds_per_model
           decision == Decide(Einsum(ballots, weights))
           Cells == (1 .. Len(ballots[1])) \X (1 .. num_classes)
       IN  /\ pc = "predict_init" =>
                 /\ times_fallback' = 0
                 /\ all_preds_per_model' = <<>>
                 /\ ensemble_filenames' = <<>>
                 /\ model_preds' = <<>>
                 /\ model_filenames' = <<>>
                 /\ weights' = [k \in 1 .. Len(models_info) |->
                                   ToFloat32(models_info[k].weight)]
           /\ pc' \in {"predict", "fallback"} =>
                 /\ Len(all_preds_per_model') = idx' - 1
                 /\ times_fallback' <=
                       Len(Cat(all_preds_per_model')) + Len(Cat(model_preds'))
           /\ pc = "fallback" =>
                 /\ preds' = Fallback(Threshold(probs, models_info[idx].threshold), probs)
                 /\ times_fallback' = times_fallback
                       + FallbackCount(Threshold(probs, models_info[idx].threshold))
           /\ (pc = "stack" /\ pc' = "conflict") =>
                 /\ Len(ballots) = Len(models_info)
                 /\ stacked_preds' = ballots
                 /\ ensemble_filenames[1] = models_info[1].loader_test
                 /\ (ensemble_preds # <<>> /\ stacked_preds = ballots) =>
                       ensemble_preds = decision
           /\ (pc = "conflict" /\ pc' = "influence") =>
                 /\ conflict_votes' = Cardinality(Conflicts(ballots))
                 /\ total_votes' = Cardinality(Cells)
           /\ (pc = "influence" /\ pc' = "leave_one_out") =>
                 /\ ensemble_decision' = decision
                 /\ agree_with_vote' = [k \in 1 .. Len(ballots) |-> 0]
                 /\ decisive_votes' = [k \in 1 .. Len(ballots) |-> 0]
           /\ pc = "leave_one_out" =>
                 /\ agree_with_vote'[m] = EqualCells(ballots[m], decision)
                 /\ decisive_votes'[m] = Cardinality(Cells)
                       - EqualCells(decision, NewDecision(ballots, weights, m))
           /\ pc = "submit" =>
                 /\ ensemble_preds' = decision
                 /\ submission' = <<[Filename |-> models_info[1].loader_test,
                                     labels |-> decision]>>
    ]_vars

\* C18 witness: a second run has predicted every model while the matrices of the
\* first run are still in the kernel; its ballots are those of the first run, and
\* its counter holds the firings of this run only, one for every row.
C18_Witness ==
    /\ pc = "stack"
    /\ ensemble_preds # <<>>
    /\ submission # <<>>
    /\ Len(all_preds_per_model) = 2
    /\ all_preds_per_model = stacked_preds
    /\ times_fallback = 2

\* C19: the conflict analysis and the influence analysis change neither the stacked
\* ballots, the weights, the filenames nor anything the submission cell writes; the
\* Final Decision Matrix the submission cell writes is the decision of the
\* per-model matrices and the normalised weights as they were before any analysis,
\* whether the analyses ran or were skipped, and when the influence analysis ran it
\* equals the decision that analysis used.
C19_DiagnosticsNotFedBack ==
    [][
       /\ pc \in {"conflict", "influence", "leave_one_out"} =>
             /\ stacked_preds' = stacked_preds
             /\ all_preds_per_model' = all_preds_per_model
             /\ weights' = weights
             /\ models_info' = models_info
             /\ ensemble_filenames' = ensemble_filenames
             /\ <<weighted_preds', ensemble_preds', submission'>>
                   = <<weighted_preds, ensemble_preds, submission>>
       /\ pc = "submit" =>
             /\ ensemble_preds' =
                   Decide(Einsum(all_preds_per_model,
                                 [k \in 1 .. Len(models_info) |->
                                     ToFloat32(models_info[k].weight)]))
             /\ ensemble_decision # <<>> => ensemble_preds' = ensemble_decision
             /\ submission'[1].labels = ensemble_preds'
    ]_vars

\* C19 witness: a run has finished after both analyses ran; there were fallbacks,
\* contested cells and a decisive model, and the matrix written equals the decision
\* of the influence analysis.
C19_Witness ==
    /\ pc = "done"
    /\ ensemble_decision # <<>>
    /\ ensemble_preds = ensemble_decision
    /\ times_fallback > 0
    /\ conflict_votes > 0
    /\ \E k \in 1 .. Len(decisive_votes) : decisive_votes[k] > 0

\* what every step leaves as it is: the probabilities of the batch during the
\* fallback, the batches already collected, the per-model matrices already
\* appended, and, once they exist, the weights tensor, the stacked tensor, the vote
\* matrices and the decisions
ProducedMatricesKept ==
    /\ pc \in {"fallback", "ind_fallback"} => probs' = probs
    /\ pc = "fallback" =>
          /\ SubSeq(model_preds', 1, Len(model_preds)) = model_preds
          /\ model_preds'[Len(model_preds')] = preds'
    /\ pc = "ind_fallback" =>
          /\ SubSeq(all_preds', 1, Len(all_preds)) = all_preds
          /\ all_preds'[Len(all_preds')] = preds'
    /\ pc # "predict_init" =>
          SubSeq(all_preds_per_model', 1, Len(all_preds_per_model)) = all_preds_per_model
    /\ (pc = "predict" /\ Len(all_preds_per_model') > Len(all_preds_per_model)) =>
          all_preds_per_model'[Len(all_preds_per_model')] = Cat(model_preds)
    /\ weights # <<>> => weights' = weights
    /\ stacked_preds # <<>> => stacked_preds' = stacked_preds
    /\ pc = "stack" => all_preds_per_model' = all_preds_per_model
    /\ weighted_votes # <<>> => weighted_votes' = weighted_votes
    /\ ensemble_decision # <<>> => ensemble_decision' = ensemble_decision
    /\ weighted_preds # <<>> => weighted_preds' = weighted_preds
    /\ ensemble_preds # <<>> => ensemble_preds' = ensemble_preds

\* C20 (as stated): no step changes a matrix that was produced before it; the
\* fallback step in particular leaves the thresholded matrix preds as it was.
C20_NoMutation ==
    [][
       /\ ProducedMatricesKept
       /\ pc \in {"fallback", "ind_fallback"} => preds' = preds
    ]_vars

\* C20 (amended): no step changes a matrix that was produced before it, except
\* that the fallback step writes into the thresholded matrix preds itself: rows
\* that hold a label are kept, and a row without one is changed in exactly one cell.
C20_OnlyFallbackWritesInPlace ==
    [][
       /\ ProducedMatricesKept
       /\ pc \in {"fallback", "ind_fallback"} =>
             \A i \in 1 .. Len(preds) :
                IF RowSum(preds[i]) >= 1 THEN preds'[i] = preds[i]
                ELSE Cardinality({j \in 1 .. num_classes : preds'[i][j] # preds[i][j]}) = 1
    ]_vars

\* C20 witness: after the fallback step preds is no longer the matrix that
\* thresholding the batch's probabilities gave.
C20_Witness ==
    /\ pc \in {"predict", "ind_predict"}
    /\ probs # <<>>
    /\ times_fallback > 0
    /\ preds # Threshold(probs, ThresholdInUse)

\* C30: the printed fallback rate is the fallback count divided by the number of
\* rows that were predicted: S * N rows in the ensemble notebook (S test images,
\* N models) and S rows in the individual notebook, whatever S is.  The two
\* fractions are compared by cross-multiplication.
C30_RateOverPredictedRows ==
    /\ (pc \in {"conflict", "influence", "leave_one_out", "submit", "done"}) =>
          /\ fallback_rate # <<>>
          /\ fallback_rate.count * (Len(stacked_preds[1]) * Len(stacked_preds)) =
                times_fallback * fallback_rate.rows
    /\ pc = "ind_done" =>
          /\ fallback_rate # <<>>
          /\ fallback_rate.count * Len(all_preds) = times_fallback * fallback_rate.rows

\* C27: with non-negative normalised weights, leaving model k out changes a cell
\* of the decision only from 1 to 0, and only where model k voted 1 and the
\* N-model decision is 1; so once both counters of model k are computed, its
\* decisive count is at most its agreement count.
C27_OneDirectionalFlips ==
    LET N == Len(stacked_preds)
        Cells == (1 .. Len(stacked_preds[1])) \X (1 .. num_classes)
    IN  (decisive_votes # <<>> /\ \A k \in 1 .. N : weights[k] >= 0) =>
           \A k \in 1 .. N :
              /\ \A c \in Cells :
                    NewDecision(stacked_preds, weights, k)[c[1]][c[2]]
                          # ensemble_decision[c[1]][c[2]] =>
                       /\ ensemble_decision[c[1]][c[2]] = 1
                       /\ NewDecision(stacked_preds, weights, k)[c[1]][c[2]] = 0
                       /\ stacked_preds[k][c[1]][c[2]] = 1
              /\ (k < m \/ pc # "leave_one_out") =>
                    decisive_votes[k] <= agree_with_vote[k]

\* C27 witness: after the loop a model of a three-model ensemble is decisive in a
\* cell and agrees with the decision in more cells than it is decisive in, while
\* another model disagrees with the decision somewhere.
C27_Witness ==
    /\ pc = "done"
    /\ decisive_votes # <<>>
    /\ Len(stacked_preds) = 3
    /\ \E k1, k2 \in 1 .. 3 :
          /\ decisive_votes[k1] > 0
          /\ decisive_votes[k1] < agree_with_vote[k1]
          /\ agree_with_vote[k2] < total_votes

\* C28: when every model casts the same ballot matrix, the decision computed from
\* the program's normalised weights (which sum to 1) is that matrix, in the
\* influence analysis and in the submission, and every model's agreement count,
\* once computed, is the number of cells (100%); in particular the decision of a
\* single-model ensemble is that model's own ballot matrix.
C28_Unanimity ==
    LET N == Len(stacked_preds)
        Cells == (1 .. Len(stacked_preds[1])) \X (1 .. num_classes)
    IN  (stacked_preds # <<>> /\ \A k \in 1 .. N : stacked_preds[k] = stacked_preds[1]) =>
           /\ ensemble_decision # <<>> => ensemble_decision = stacked_preds[1]
           /\ ensemble_preds # <<>> => ensemble_preds = stacked_preds[1]
           /\ agree_with_vote # <<>> =>
                 \A k \in 1 .. N :
                    (k < m \/ pc # "leave_one_out") =>
                       agree_with_vote[k] = Cardinality(Cells)

\* C28 witness: three models with different weights cast the same ballot, which
\* has a label set and a label not set; the run is complete.
C28_Witness ==
    /\ pc = "done"
    /\ Len(stacked_preds) = 3
    /\ weights[1] # weights[2]
    /\ weights[3] > 0
    /\ stacked_preds[1] = <<<<1, 0>>>>
    /\ stacked_preds[2] = stacked_preds[1]
    /\ stacked_preds[3] = stacked_preds[1]
    /\ agree_with_vote = <<total_votes, total_votes, total_votes>>
    /\ ensemble_preds = stacked_preds[1]

\* float32 subtraction, used by the subtraction variant of the leave-one-out sum
F32Sub(x, y) == FRound(SingleBits, x - y, 1)

\* the weighted sum over the models other than k, as the loop recomputes it
\* (for a single model the loop takes new_decision to be zero)
OthersVote(k, i, j) ==
    IF Len(stacked_preds) = 1 THEN 0
    ELSE Einsum(Without(stacked_preds, k), Without(weights, k))[i][j]

\* the same sum derived from the N-model Weighted Vote Matrix by subtraction
SubtractedVote(k, i, j) ==
    F32Sub(weighted_votes[i][j], weights[k] * stacked_preds[k][i][j])

\* the cells in which the decision taken from the subtracted sum differs from the
\* N-model decision
SubtractedFlips(k) ==
    {c \in (1 .. Len(stacked_preds[1])) \X (1 .. num_classes) :
        (IF SubtractedVote(k, c[1], c[2]) > Half THEN 1 ELSE 0)
           # ensemble_decision[c[1]][c[2]]}

\* the rounding errors of the two float32 computations of an N-model sum below 2:
\* 2N - 2 roundings of at most half a unit in the last place each
RoundingTolerance(N) == (2 * N - 2) * Pow2(FracBits - SingleBits)

\* the cells voted by model k whose recomputed sum is within the tolerance of 0.5
NearHalf(k) ==
    {c \in (1 .. Len(stacked_preds[1])) \X (1 .. num_classes) :
        /\ stacked_preds[k][c[1]][c[2]] = 1
        /\ OthersVote(k, c[1], c[2]) - Half <= RoundingTolerance(Len(stacked_preds))
        /\ Half - OthersVote(k, c[1], c[2]) <= RoundingTolerance(Len(stacked_preds))}

\* C22 (as stated): in every cell the N-model sum minus w'_k * B_k equals the
\* weighted sum over the other models, and the decisiveness derived by
\* subtraction is the decisiveness the loop computes.
C22_SubtractionExact ==
    decisive_votes # <<>> =>
       \A k \in 1 .. Len(stacked_preds) :
          /\ \A i \in 1 .. Len(stacked_preds[1]) : \A j \in 1 .. num_classes :
                SubtractedVote(k, i, j) = OthersVote(k, i, j)
          /\ (k < m \/ pc # "leave_one_out") =>
                decisive_votes[k] = Cardinality(SubtractedFlips(k))

\* C22 (amended): for non-negative weights the subtracted sum equals the
\* recomputed sum exactly in the cells model k did not vote for and within the
\* rounding tolerance elsewhere; the two decisions agree in every cell whose
\* recomputed sum is farther than the tolerance from 0.5, so the decisiveness by
\* subtraction differs from the loop's by at most the number of the other cells.
C22_SubtractionUpToRounding ==
    LET N == Len(stacked_preds)
        Cells == (1 .. Len(stacked_preds[1])) \X (1 .. num_classes)
        Diff(k) == Cardinality(SubtractedFlips(k)) - decisive_votes[k]
    IN  decisive_votes # <<>> =>
           \A k \in 1 .. N :
              /\ \A c \in Cells :
                    /\ stacked_preds[k][c[1]][c[2]] = 0 =>
                          SubtractedVote(k, c[1], c[2]) = OthersVote(k, c[1], c[2])
                    /\ SubtractedVote(k, c[1], c[2]) - OthersVote(k, c[1], c[2])
                          <= RoundingTolerance(N)
                    /\ OthersVote(k, c[1], c[2]) - SubtractedVote(k, c[1], c[2])
                          <= RoundingTolerance(N)
                    /\ c \notin NearHalf(k) =>
                          (SubtractedVote(k, c[1], c[2]) > Half)
                             = (OthersVote(k, c[1], c[2]) > Half)
              /\ (k < m \/ pc # "leave_one_out") =>
                    /\ Diff(k) <= Cardinality(NearHalf(k))
                    /\ -Diff(k) <= Cardinality(NearHalf(k))

\* C22 witness: after the loop, the subtracted sum of a cell differs from the
\* recomputed one, and a model is decisive in a cell whose recomputed sum is far
\* from 0.5, where subtraction gives the same flip.
C22_Witness ==
    /\ pc = "done"
    /\ decisive_votes # <<>>
    /\ \E k \in 1 .. Len(stacked_preds) : \E j \in 1 .. num_classes :
          SubtractedVote(k, 1, j) # OthersVote(k, 1, j)
    /\ \E k \in 1 .. Len(stacked_preds) : \E j \in 1 .. num_classes :
          /\ stacked_preds[k][1][j] = 1
          /\ <<1, j>> \notin NearHalf(k)
          /\ <<1, j>> \in SubtractedFlips(k)
          /\ decisive_votes[k] > 0

\* the orders in which N models can be listed in model_configs
ModelOrders(N) ==
    {p \in [1 .. N -> 1 .. N] : \A a, b \in 1 .. N : p[a] = p[b] => a = b}

\* the list s taken in the order p
Permuted(s, p) == [n \in 1 .. Len(s) |-> s[p[n]]]

\* the weights tensor the configuration and prediction cells build from a list
\* of model entries
WeightsOf(info) ==
    LET total == PySum([k \in 1 .. Len(info) |-> info[k].raw_weight])
    IN  [k \in 1 .. Len(info) |-> ToFloat32(NormalizedInfo(info, total)[k].weight)]

\* the decisive count of model n for the ballots b and the weights w
DecisiveOf(b, w, n) ==
    Len(b[1]) * Len(b[1][1]) - EqualCells(Decide(Einsum(b, w)), NewDecision(b, w, n))

\* the rounding errors that separate two float32 sums of the same N terms taken
\* in different orders from weights that agree up to one unit in the last place
OrderTolerance(N) == (3 * N - 2) * Pow2(FracBits - SingleBits)

\* no N-model or leave-one-out sum of a cell is within the tolerance of 0.5
ClearOfHalf ==
    LET N == Len(stacked_preds)
        Near(v) == v - Half <= OrderTolerance(N) /\ Half - v <= OrderTolerance(N)
    IN  \A i \in 1 .. Len(stacked_preds[1]) : \A j \in 1 .. num_classes :
           /\ ~Near(weighted_votes[i][j])
           /\ \A k \in 1 .. N : ~Near(OthersVote(k, i, j))

RECURSIVE SequentialLoop(_)
SequentialLoop(n) ==
    IF n = 0
    THEN [agree |-> [k \in 1 .. Len(stacked_preds) |-> 0],
          decisive |-> [k \in 1 .. Len(stacked_preds) |-> 0]]
    ELSE LET before == SequentialLoop(n - 1)
         IN  [agree |-> [before.agree EXCEPT ![n] =
                            EqualCells(stacked_preds[n], ensemble_decision)],
              decisive |-> [before.decisive EXCEPT ![n] =
                            Len(ensemble_decision) * Len(ensemble_decision[1])
                            - EqualCells(ensemble_decision,
                                         NewDecision(stacked_preds, weights, n))]]

F1At(n) == f1_score(all_labels, SweepPreds(all_probs, threshold_range[n]))

\* C23: after a validation epoch best_f1 is the largest micro-F1 over the
\* thresholds of the sweep, and best_thresh is the first threshold of the sweep,
\* in sweep order, that attains it.
C23_FirstMaximiser ==
    f1_scores # <<>> =>
       /\ \A n \in 1 .. Len(threshold_range) : F1At(n) <= best_f1
       /\ \E n \in 1 .. Len(threshold_range) :
             /\ best_thresh = threshold_range[n]
             /\ F1At(n) = best_f1
             /\ \A k \in 1 .. (n - 1) : F1At(k) < best_f1

\* C24: after a validation epoch, whatever the validation outputs and labels
\* were, best_thresh is one of the thresholds 0.20, 0.22, ..., 0.50 of the sweep
\* and so lies strictly between 0 and 1.
C24_ThresholdInSweep ==
    f1_scores # <<>> =>
       /\ best_thresh \in {threshold_range[n] : n \in 1 .. Len(threshold_range)}
       /\ best_thresh >= sweep_start
       /\ best_thresh < sweep_stop
       /\ best_thresh > 0
       /\ best_thresh < 100

\* C25: in both training loops every epoch steps the scheduler exactly once, and
\* the learning rate used in epoch e (from 0) is the initial rate times
\* 0.5^floor(e / step_size), the same in both loops.
C25_OneStepPerEpoch ==
    [][(pc \in {"train_val", "full_train"}) =>
       (
          /\ last_epoch = epoch
          /\ last_epoch' = last_epoch + 1
          /\ lr * Pow2(epoch \div step_size) = initial_lr
       )]_vars

\* a key without its leading 'module.', or the key itself when it has none
WithoutLeadingModule(k) == IF StartsWithModule(k) THEN Tail(k) ELSE k

\* C26: when remove_module_prefix has been applied to a checkpoint whose keys stay
\* distinct without their leading 'module.', the state dict has as many entries
\* as the checkpoint, and each entry holds the checkpoint entry's tensor under the
\* checkpoint entry's key without its leading 'module.': any other 'module.' in
\* the key is kept, and a key without the prefix is unchanged.
C26_OnlyLeadingPrefix ==
    (/\ pc \in {"checkpoint_ready", "checkpoint_done"}
     /\ \E a \in 1 .. Len(checkpoint) : StartsWithModule(checkpoint[a].key)
     /\ \A a, b \in 1 .. Len(checkpoint) :
           WithoutLeadingModule(checkpoint[a].key) = WithoutLeadingModule(checkpoint[b].key)
              => a = b) =>
       /\ Len(state_dict) = Len(checkpoint)
       /\ \A a \in 1 .. Len(checkpoint) :
             /\ state_dict[a].key = WithoutLeadingModule(checkpoint[a].key)
             /\ state_dict[a].value = checkpoint[a].value

====
